---- MODULE Spec2Model ----
(***************************************************************************)
(* A model of mkdocs_static_i18n/plugin.py: the locale validator, the      *)
(* locale-aware file index (I18nFiles), the path and URL derivation, the   *)
(* file-tree construction of on_files, navigation title translation, the   *)
(* contextual alternate links and the search de-duplication.               *)
(*                                                                         *)
(* Strings are sequences of characters, as str is in the source.  Literals *)
(* are written word by word and spelled out by Str: "guide.fr.md" is       *)
(* Str(<<"guide", ".", "fr", ".", "md">>), the eleven characters g, u, i,  *)
(* d, e, ., f, r, ., m, d.                                                 *)
(***************************************************************************)
EXTENDS Integers, Sequences, FiniteSets, TLC

VARIABLES
    config,      \* on_files: [use_directory_urls, default_language_only]
    files,       \* on_files: the scanned source tree, a sequence of File records
    main_files,  \* on_files: the main (default) tree that on_files returns
    i18n_files,  \* on_files: self.i18n_files, language -> sequence of File records
    pc,          \* position of the build: "scan", "built"
    locale,      \* I18nFiles.locale of the index under lookup
    src_paths,   \* I18nFiles.src_paths: the src_path keys, in insertion order
    lookup,      \* the last lookup in the index and what it gave: <<>> (none
                 \* yet) or <<[path, raised, contains, file]>>
    nav,               \* the navigation on_nav gets: nodes [title, parent], parent 0
                       \* for a top-level item, children in the order of the nodes
    nav_built,         \* the navigation as the navigation builder returned it
    nav_translations,  \* self.config["nav_translations"][files.locale]: title -> title
    translated,        \* I18nFiles.translated of the files on_nav gets
    nav_calls,         \* how often on_nav was invoked with these files
    languages,         \* on_post_build: the keys of self.config["languages"], in order
    search_entries,    \* search_plugin.search_index._entries: [location, text]
    indexed,           \* every entry the page builds have added to the search index
    post_pc,           \* on_post_build: "main" (not called yet), "render" (the pages
                       \* of a language are built), "done", "failed" (an exception)
    post_i,            \* on_post_build: the place in languages of the language built
    dedups,            \* on_post_build: how often _fix_search_duplicates was called
    alt_config,           \* the options on_config reads: use_directory_urls,
                          \* material_alternate, default_language_only, languages
                          \* (the keys of self.config["languages"], in order)
    material_alternates,  \* self.material_alternates: [name, link, lang], <<>> for None
    extra_alternate,      \* config["extra"]["alternate"] of the global configuration
                          \* ("main") and of each language's copy of it
    context_page,         \* the page on_page_context was last called for:
                          \* <<>> or <<[tree, src_path, url]>>
    alt_pc,               \* "config" (before on_config), "files" (before on_files),
                          \* "render" (pages are rendered)
    option,               \* the value of a Locale option: [kind, str, keys]
    validation,           \* what Locale.run_validation did with it: <<>> (not run),
                          \* <<[ok, value]>>, value the one the error carries
    has_search,  \* whether "search" is in config["plugins"]
    cfg_parts,   \* the object each key of a configuration refers to, for the global
                 \* configuration ("main") and the copy of each language:
                 \* [nav, extra, theme, search], 0 for none
    cfg_heap,    \* the objects, each at the place that is its identity
    cfg_pc,       \* "files" (before on_files), "build" (the builds run), "fixed"
                  \* (_fix_search_duplicates has run, the languages after the
                  \* default one are built), "failed" (it raised an exception)
    cfg_indexed,  \* every entry the page builds have added to the search index of
                  \* the configurations
    config_nav,   \* config["nav"] of the global configuration
    i18n_nav,     \* self.i18n_configs[language]["nav"] of each language
    nav_sources,  \* the src_path of the source files on_files got, in order
    nav_index,    \* self.i18n_files as on_files built it from them
    nav_fixed     \* the languages _fix_config_navigation was called for

filesVars == <<config, files, main_files, i18n_files, pc>>

indexVars == <<locale, src_paths, lookup>>

navVars == <<nav, nav_built, nav_translations, translated, nav_calls>>

searchVars == <<languages, search_entries, indexed, post_pc, post_i, dedups>>

altVars == <<alt_config, material_alternates, extra_alternate, context_page, alt_pc>>

localeVars == <<option, validation>>

configVars == <<has_search, cfg_parts, cfg_heap, cfg_pc, cfg_indexed>>

navConfigVars == <<config_nav, i18n_nav, nav_sources, nav_index, nav_fixed>>

\* what the file-tree construction leaves alone
outsideFiles == <<indexVars, navVars, searchVars, altVars, localeVars, configVars, navConfigVars>>

\* what the index lookups leave alone
outsideIndex == <<filesVars, navVars, searchVars, altVars, localeVars, configVars, navConfigVars>>

\* what on_nav leaves alone
outsideNav == <<filesVars, indexVars, searchVars, altVars, localeVars, configVars, navConfigVars>>

\* what on_post_build leaves alone
outsideSearch == <<filesVars, indexVars, navVars, altVars, localeVars, configVars, navConfigVars>>

\* what on_config and on_page_context leave alone
outsideAlt == <<filesVars, indexVars, navVars, searchVars, localeVars, configVars, navConfigVars>>

\* what the validation of an option leaves alone
outsideLocale == <<filesVars, indexVars, navVars, searchVars, altVars, configVars, navConfigVars>>

\* what the copies of the configuration leave alone
outsideConfigs == <<filesVars, indexVars, navVars, searchVars, altVars, localeVars, navConfigVars>>

\* what _fix_config_navigation leaves alone
outsideNavConfig == <<filesVars, indexVars, navVars, searchVars, altVars, localeVars, configVars>>

vars == <<filesVars, indexVars, navVars, searchVars, altVars, localeVars, configVars, navConfigVars>>

-----------------------------------------------------------------------------
(* Bounds of the model *)

MaxFiles == 2

MaxIndex == 3

MaxNavNodes == 3

MaxNavCalls == 2

MaxMainEntries == 2

MaxLocaleEntries == 2

MaxLocaleLen == 6

MaxKeys == 2

MaxObjects == 14

MaxNavEntries == 2

MaxNavSources == 2

-----------------------------------------------------------------------------
(* str *)

\* The words of the source that have more than one character: language codes,
\* file stems, extensions, URL schemes.
WordTable ==
       ("guide" :> <<"g", "u", "i", "d", "e">>)
    @@ ("index" :> <<"i", "n", "d", "e", "x">>)
    @@ ("README" :> <<"R", "E", "A", "D", "M", "E">>)
    @@ ("sub" :> <<"s", "u", "b">>)
    @@ ("v1" :> <<"v", "1">>)
    @@ ("md" :> <<"m", "d">>)
    @@ ("markdown" :> <<"m", "a", "r", "k", "d", "o", "w", "n">>)
    @@ ("mdown" :> <<"m", "d", "o", "w", "n">>)
    @@ ("mkdn" :> <<"m", "k", "d", "n">>)
    @@ ("mkd" :> <<"m", "k", "d">>)
    @@ ("html" :> <<"h", "t", "m", "l">>)
    @@ ("png" :> <<"p", "n", "g">>)
    @@ ("logo" :> <<"l", "o", "g", "o">>)
    @@ ("en" :> <<"e", "n">>)
    @@ ("fr" :> <<"f", "r">>)
    @@ ("other" :> <<"o", "t", "h", "e", "r">>)
    @@ ("http:" :> <<"h", "t", "t", "p", ":">>)
    @@ ("https:" :> <<"h", "t", "t", "p", "s", ":">>)

\* The characters of a word; a word of one character is that character.
WordChars(word) == IF word \in DOMAIN WordTable THEN WordTable[word] ELSE <<word>>

\* The str a literal of the source denotes, given word by word.
RECURSIVE Str(_)
Str(words) == IF words = <<>> THEN <<>> ELSE WordChars(Head(words)) \o Str(Tail(words))

StartsWith(s, p) == Len(p) <= Len(s) /\ SubSeq(s, 1, Len(p)) = p

EndsWith(s, p) == Len(p) <= Len(s) /\ SubSeq(s, Len(s) - Len(p) + 1, Len(s)) = p

\* s[n:], n counted from 0
Drop(s, n) == SubSeq(s, n + 1, Len(s))

\* the last position of character t in s, 0 when s holds none (str.rfind, plus one)
RFind(s, t) ==
    LET hits == {i \in 1..Len(s) : s[i] = t}
    IN  IF hits = {} THEN 0 ELSE CHOOSE i \in hits : \A j \in hits : j <= i

\* whether s holds sub as a contiguous part
Contains(s, sub) ==
    \E i \in 1..(Len(s) - Len(sub) + 1) : SubSeq(s, i, i + Len(sub) - 1) = sub

RECURSIVE ReplaceFrom(_, _, _, _, _)
ReplaceFrom(s, old, new, i, left) ==
    IF i > Len(s) THEN <<>>
    ELSE IF left /= 0 /\ Len(old) > 0 /\ i + Len(old) - 1 <= Len(s)
            /\ SubSeq(s, i, i + Len(old) - 1) = old
         THEN new \o ReplaceFrom(s, old, new, i + Len(old), left - 1)
         ELSE <<s[i]>> \o ReplaceFrom(s, old, new, i + 1, left)

\* str.replace(old, new): every occurrence, left to right, not overlapping
Replace(s, old, new) == ReplaceFrom(s, old, new, 1, -1)

\* str.replace(old, new, 1)
ReplaceFirst(s, old, new) == ReplaceFrom(s, old, new, 1, 1)

RECURSIVE RStrip(_, _)
RStrip(s, t) ==
    IF Len(s) > 0 /\ s[Len(s)] = t THEN RStrip(SubSeq(s, 1, Len(s) - 1), t) ELSE s

RECURSIVE LStrip(_, _)
LStrip(s, t) ==
    IF Len(s) > 0 /\ s[1] = t THEN LStrip(Drop(s, 1), t) ELSE s

-----------------------------------------------------------------------------
(* posixpath *)

\* the parts of a path between its slashes (str.split("/"))
RECURSIVE SplitSlash(_)
SplitSlash(s) ==
    IF RFind(s, "/") = 0 THEN <<s>>
    ELSE Append(SplitSlash(SubSeq(s, 1, RFind(s, "/") - 1)), Drop(s, RFind(s, "/")))

\* "/".join(parts)
RECURSIVE JoinSlash(_)
JoinSlash(parts) ==
    IF parts = <<>> THEN <<>>
    ELSE IF Len(parts) = 1 THEN parts[1]
    ELSE parts[1] \o <<"/">> \o JoinSlash(Tail(parts))

\* the slashes a path keeps at its start: two when it starts with exactly two
\* slashes, one when it starts with a slash, none otherwise
InitialSlashes(p) ==
    IF StartsWith(p, <<"/", "/">>) /\ ~StartsWith(p, <<"/", "/", "/">>) THEN <<"/", "/">>
    ELSE IF StartsWith(p, <<"/">>) THEN <<"/">>
    ELSE <<>>

\* os.path.basename
BaseName(p) == Drop(p, RFind(p, "/"))

\* os.path.dirname, the head of os.path.split: the slashes that end the head
\* are cut unless it holds nothing else
DirName(p) ==
    LET head == SubSeq(p, 1, RFind(p, "/"))
    IN  IF RStrip(head, "/") = <<>> THEN head ELSE RStrip(head, "/")

\* os.path.join(a, b)
OsPathJoin(a, b) ==
    IF StartsWith(b, <<"/">>) THEN b
    ELSE IF a = <<>> \/ EndsWith(a, <<"/">>) THEN a \o b
    ELSE a \o <<"/">> \o b

\* where os.path.splitext cuts p: at its last dot, when the dot is in the last
\* part of the path and a character that is not a dot precedes it there; 0
\* when there is no extension
SplitExtIndex(p) ==
    LET dot == RFind(p, ".")
        sep == RFind(p, "/")
    IN  IF dot > sep /\ \E k \in (sep + 1)..(dot - 1) : p[k] /= "." THEN dot ELSE 0

\* os.path.splitext(p)[0]
SplitExtRoot(p) ==
    LET i == SplitExtIndex(p) IN IF i > 0 THEN SubSeq(p, 1, i - 1) ELSE p

\* os.path.splitext(p)[1]
SplitExtExt(p) ==
    LET i == SplitExtIndex(p) IN IF i > 0 THEN SubSeq(p, i, Len(p)) ELSE <<>>

\* the loop of os.path.normpath over the parts of the path: empty parts and
\* single dots are left out, a double dot takes back the part before it
RECURSIVE NormComps(_, _, _)
NormComps(comps, new_comps, rooted) ==
    IF comps = <<>> THEN new_comps
    ELSE LET comp == Head(comps)
         IN  IF comp = <<>> \/ comp = <<".">> THEN NormComps(Tail(comps), new_comps, rooted)
             ELSE IF \/ comp /= <<".", ".">>
                     \/ (~rooted /\ new_comps = <<>>)
                     \/ (new_comps /= <<>> /\ new_comps[Len(new_comps)] = <<".", ".">>)
             THEN NormComps(Tail(comps), Append(new_comps, comp), rooted)
             ELSE IF new_comps /= <<>>
             THEN NormComps(Tail(comps), SubSeq(new_comps, 1, Len(new_comps) - 1), rooted)
             ELSE NormComps(Tail(comps), new_comps, rooted)

\* os.path.normpath
NormPath(p) ==
    LET initial == InitialSlashes(p)
        path    == initial \o JoinSlash(NormComps(SplitSlash(p), <<>>, initial /= <<>>))
    IN  IF path = <<>> THEN <<".">> ELSE path

-----------------------------------------------------------------------------
(* pathlib.PurePosixPath; a path is held as its str() *)

\* the exception with_suffix and with_name raise; no str is equal to it
ValueError == <<"ValueError">>

\* a relative path that str(Path(v)) gives back as it is: it is not empty, and
\* no slash of it ends it or stands before a slash or before a part that is a
\* single dot, nor does it start with such a part
IsRelativeNormal(v) ==
    /\ v /= <<>>
    /\ v[1] /= "/"
    /\ ~StartsWith(v, <<".", "/">>)
    /\ \A i \in 1..Len(v) :
          v[i] = "/" =>
              /\ i < Len(v)
              /\ v[i + 1] /= "/"
              /\ ~(v[i + 1] = "." /\ (i + 1 = Len(v) \/ v[i + 2] = "/"))

\* str(Path(v)): no empty part, no part that is a single dot, no trailing
\* slash; the root is "/", or "//" when v starts with exactly two slashes
StrPath(v) ==
    LET kept   == SelectSeq(SplitSlash(v), LAMBDA part : part /= <<>> /\ part /= <<".">>)
        joined == JoinSlash(kept)
        root   == InitialSlashes(v)
    IN  IF IsRelativeNormal(v) THEN v
        ELSE IF root /= <<>> THEN root \o joined
        ELSE IF joined = <<>> THEN <<".">>
        ELSE joined

\* PurePath.name: the last part, empty for "." and for a path that is its root
PathName(p) == IF p = <<".">> THEN <<>> ELSE Drop(p, RFind(p, "/"))

\* PurePath.parent
PathParent(p) ==
    LET i    == RFind(p, "/")
        root == InitialSlashes(p)
    IN  IF i = 0 THEN <<".">>
        ELSE IF i <= Len(root) THEN root
        ELSE SubSeq(p, 1, i - 1)

\* PurePath.suffix: name[i:] for i = name.rfind("."), when 0 < i < len(name) - 1
NameSuffix(name) ==
    LET i == RFind(name, ".")
    IN  IF 1 < i /\ i < Len(name) THEN SubSeq(name, i, Len(name)) ELSE <<>>

PathSuffix(p) == NameSuffix(PathName(p))

RECURSIVE SplitSuffixes(_)
SplitSuffixes(name) ==
    LET i == RFind(name, ".")
    IN  IF i = 0 THEN <<>>
        ELSE SplitSuffixes(SubSeq(name, 1, i - 1)) \o <<SubSeq(name, i, Len(name))>>

\* PurePath.suffixes
PathSuffixes(p) ==
    LET name == PathName(p)
    IN  IF EndsWith(name, <<".">>) THEN <<>> ELSE SplitSuffixes(LStrip(name, "."))

\* PurePath.stem
PathStem(p) == SubSeq(PathName(p), 1, Len(PathName(p)) - Len(PathSuffix(p)))

\* str(Path(page.name).stem)
NameStem(name) == PathStem(StrPath(name))

\* PurePath.with_name: ValueError for a path that has no name, and for a name
\* that is not one part of a path
WithName(p, name) ==
    IF PathName(p) = <<>> \/ name = <<>> \/ name = <<".">> \/ RFind(name, "/") /= 0
    THEN ValueError
    ELSE SubSeq(p, 1, RFind(p, "/")) \o name

\* PurePath.with_suffix: ValueError for a suffix that holds a slash, that does
\* not start with a dot or that is a dot alone, and for a path that has no name
WithSuffix(p, suffix) ==
    IF \/ RFind(suffix, "/") /= 0
       \/ (suffix /= <<>> /\ suffix[1] /= ".")
       \/ suffix = <<".">>
       \/ PathName(p) = <<>>
    THEN ValueError
    ELSE SubSeq(p, 1, Len(p) - Len(PathSuffix(p))) \o suffix

\* PurePath.joinpath
JoinPath(p, q) ==
    IF StartsWith(q, <<"/">>) \/ p = <<".">> THEN q
    ELSE IF q = <<".">> THEN p
    ELSE IF EndsWith(p, <<"/">>) THEN p \o q
    ELSE p \o <<"/">> \o q

-----------------------------------------------------------------------------
(* The plugin configuration of the file-tree model: on_config *)

\* self.default_language
default_language == "en"

\* self.all_languages: the default language and the configured languages
all_languages == {"en", "fr"}

\* the str literals of the source: ".html", ".md", "index", "README",
\* "index.html", "http://" and "https://", f".{language}" and f"{language}/"
html == Str(<<".", "html">>)

DotMd == Str(<<".", "md">>)

IndexName == Str(<<"index">>)

ReadmeName == Str(<<"README">>)

IndexHtml == Str(<<"index", ".", "html">>)

UrlSchemes == {Str(<<"http:", "/", "/">>), Str(<<"https:", "/", "/">>)}

DotLanguage == [language \in all_languages |-> Str(<<".", language>>)]

LanguageSlash == [language \in all_languages |-> Str(<<language, "/">>)]

-----------------------------------------------------------------------------
(* mkdocs.structure.files.File, as the source tree scan hands it to on_files *)

\* mkdocs.utils.markdown_extensions
markdown_extensions ==
    {Str(<<".", "markdown">>), Str(<<".", "mdown">>), Str(<<".", "mkdn">>),
     Str(<<".", "mkd">>), DotMd}

\* the characters urllib.parse.quote leaves as they are: letters, digits,
\* "_", ".", "-", "~" and the slash
QuoteSafe ==
    {"a", "b", "c", "d", "e", "f", "g", "h", "i", "j", "k", "l", "m",
     "n", "o", "p", "q", "r", "s", "t", "u", "v", "w", "x", "y", "z",
     "A", "B", "C", "D", "E", "F", "G", "H", "I", "J", "K", "L", "M",
     "N", "O", "P", "Q", "R", "S", "T", "U", "V", "W", "X", "Y", "Z",
     "0", "1", "2", "3", "4", "5", "6", "7", "8", "9",
     "_", ".", "-", "~", "/"}

\* what urllib.parse.quote writes for every other character of the model: a
\* percent sign and two hexadecimal digits for each byte of its UTF-8 encoding
PercentCodes ==
       (" " :> <<"%", "2", "0">>)
    @@ ("!" :> <<"%", "2", "1">>)
    @@ ("\"" :> <<"%", "2", "2">>)
    @@ ("#" :> <<"%", "2", "3">>)
    @@ ("$" :> <<"%", "2", "4">>)
    @@ ("%" :> <<"%", "2", "5">>)
    @@ ("&" :> <<"%", "2", "6">>)
    @@ ("'" :> <<"%", "2", "7">>)
    @@ ("(" :> <<"%", "2", "8">>)
    @@ (")" :> <<"%", "2", "9">>)
    @@ ("*" :> <<"%", "2", "A">>)
    @@ ("+" :> <<"%", "2", "B">>)
    @@ ("," :> <<"%", "2", "C">>)
    @@ (":" :> <<"%", "3", "A">>)
    @@ (";" :> <<"%", "3", "B">>)
    @@ ("<" :> <<"%", "3", "C">>)
    @@ ("=" :> <<"%", "3", "D">>)
    @@ (">" :> <<"%", "3", "E">>)
    @@ ("?" :> <<"%", "3", "F">>)
    @@ ("@" :> <<"%", "4", "0">>)
    @@ ("[" :> <<"%", "5", "B">>)
    @@ ("\\" :> <<"%", "5", "C">>)
    @@ ("]" :> <<"%", "5", "D">>)
    @@ ("^" :> <<"%", "5", "E">>)
    @@ ("{" :> <<"%", "7", "B">>)
    @@ ("|" :> <<"%", "7", "C">>)
    @@ ("}" :> <<"%", "7", "D">>)
    @@ ("\n" :> <<"%", "0", "A">>)
    @@ ("\t" :> <<"%", "0", "9">>)
    @@ ("é" :> <<"%", "C", "3", "%", "A", "9">>)

\* mkdocs.utils.urlquote: urllib.parse.quote
RECURSIVE UrlQuote(_)
UrlQuote(url) ==
    IF url = <<>> THEN <<>>
    ELSE (IF Head(url) \in QuoteSafe THEN <<Head(url)>> ELSE PercentCodes[Head(url)])
             \o UrlQuote(Tail(url))

\* File.is_documentation_page
IsDocumentationPage(src_path) == SplitExtExt(src_path) \in markdown_extensions

\* File._get_stem
FileStem(src_path) ==
    LET stem == SplitExtRoot(BaseName(src_path))
    IN  IF stem \in {IndexName, ReadmeName} THEN IndexName ELSE stem

\* os.path.join(parent, rest), parent the head of os.path.split(src_path)
InDirOf(src_path, rest) == OsPathJoin(DirName(src_path), rest)

\* File._get_dest_path
FileDestPath(src_path, use_directory_urls) ==
    IF IsDocumentationPage(src_path)
    THEN IF ~use_directory_urls \/ FileStem(src_path) = IndexName
         THEN InDirOf(src_path, FileStem(src_path) \o html)
         ELSE OsPathJoin(InDirOf(src_path, FileStem(src_path)), IndexHtml)
    ELSE src_path

\* File._get_url
FileUrl(dest_path, use_directory_urls) ==
    UrlQuote(IF use_directory_urls /\ BaseName(dest_path) = IndexHtml
             THEN IF DirName(dest_path) = <<>> THEN <<".">>
                  ELSE DirName(dest_path) \o <<"/">>
             ELSE dest_path)

\* File.__init__: the path is normalised, then the name, the destination and
\* the url are derived from it
File(path, use_directory_urls) ==
    LET src_path == NormPath(path)
    IN  [src_path  |-> src_path,
         name      |-> FileStem(src_path),
         dest_path |-> FileDestPath(src_path, use_directory_urls),
         url       |-> FileUrl(FileDestPath(src_path, use_directory_urls),
                               use_directory_urls)]

-----------------------------------------------------------------------------
(* I18n: path and URL derivation *)

\* I18n._is_translation_for
IsTranslationFor(src_path, language) ==
    PathSuffixes(StrPath(src_path)) = <<DotLanguage[language], PathSuffix(StrPath(src_path))>>

\* I18n._get_page_lang; "" stands for None
GetPageLang(page) ==
    LET suffixes == PathSuffixes(StrPath(page.src_path))
        suffix   == PathSuffix(StrPath(page.src_path))
        matching == {language \in all_languages :
                        suffixes = <<DotLanguage[language], suffix>>}
    IN  IF matching = {} THEN "" ELSE CHOOSE language \in matching : TRUE

\* I18n._get_base_path
GetBasePath(page) ==
    IF GetPageLang(page) = ""
    THEN WithSuffix(StrPath(page.src_path), <<>>)
    ELSE WithSuffix(WithSuffix(StrPath(page.src_path), <<>>), <<>>)

\* GetI18nPage without the case of index files: every page gets a named folder
GetI18nPage_NoIndexCase(page, cfg) ==
    LET name == NameStem(page.name)
        dest == JoinPath(WithSuffix(PathParent(page.dest_path), <<>>),
                         PathName(page.dest_path))
    IN  [page EXCEPT !.name = name, !.dest_path = dest,
                     !.url = PathParent(dest) \o <<"/">>]

\* I18n._get_i18n_page
GetI18nPage(page, cfg) ==
    LET name == NameStem(page.name)
    IN  IF ~cfg.use_directory_urls
        THEN LET url == Replace(page.url, page.name, name)
             IN  [page EXCEPT
                    !.name = name,
                    !.dest_path = WithSuffix(WithName(page.dest_path, name), html),
                    !.url = IF url = <<>> THEN <<".">> ELSE url]
        ELSE IF name = IndexName
        THEN LET dest == WithSuffix(PathParent(page.dest_path), html)
                 url  == PathParent(dest) \o <<"/">>
             IN  [page EXCEPT
                    !.name = name,
                    !.dest_path = dest,
                    !.url = IF url = <<".", "/">> THEN <<".">> ELSE url]
        ELSE LET dest == JoinPath(WithSuffix(PathParent(page.dest_path), <<>>),
                                  PathName(page.dest_path))
             IN  [page EXCEPT
                    !.name = name,
                    !.dest_path = dest,
                    !.url = PathParent(dest) \o <<"/">>]

\* I18n._get_i18n_asset
GetI18nAsset(page, suffix) ==
    LET name == NameStem(page.name)
        dest == IF PathParent(page.dest_path) = <<".">>
                THEN name \o suffix
                ELSE JoinPath(WithSuffix(PathParent(page.dest_path), <<>>),
                              name \o suffix)
    IN  [page EXCEPT !.name = name, !.dest_path = dest, !.url = dest]

\* the tail of _get_translated_page and _get_translated_asset: the file moves
\* under the language's path
UnderLanguage(page, language) ==
    [page EXCEPT
       !.dest_path = <<"/">> \o LanguageSlash[language] \o page.dest_path,
       !.url = IF page.url = <<".">> THEN LanguageSlash[language]
               ELSE LanguageSlash[language] \o page.url]

\* I18n._get_translated_page
GetTranslatedPage(page, language, cfg) ==
    IF \E lang \in all_languages : IsTranslationFor(page.src_path, lang)
    THEN UnderLanguage(GetI18nPage(page, cfg), language)
    ELSE UnderLanguage(page, language)

\* I18n._get_translated_asset
GetTranslatedAsset(page, language, suffix) ==
    IF \E lang \in all_languages : IsTranslationFor(page.src_path, lang)
    THEN UnderLanguage(GetI18nAsset(page, suffix), language)
    ELSE page

RECURSIVE FirstWithPath(_, _, _)
FirstWithPath(expected_path, fs, i) ==
    IF i > Len(fs) THEN <<>>
    ELSE IF StrPath(fs[i].src_path) = expected_path THEN <<fs[i]>>
    ELSE FirstWithPath(expected_path, fs, i + 1)

\* I18n._get_page_from_paths; <<>> stands for None, <<page>> for a page
RECURSIVE GetPageFromPaths(_, _)
GetPageFromPaths(expected_paths, fs) ==
    IF expected_paths = <<>> THEN <<>>
    ELSE LET found == FirstWithPath(Head(expected_paths), fs, 1)
         IN  IF found /= <<>> THEN found
             ELSE GetPageFromPaths(Tail(expected_paths), fs)

-----------------------------------------------------------------------------
(* I18n.on_files *)

\* the paths main expects: .md or .default_language.md
MainExpects(base_path, suffix) ==
    <<base_path \o suffix,
      base_path \o DotLanguage[default_language] \o suffix>>

\* LangExpects with the default locale tried before the target locale
LangExpects_DefaultFirst(base_path, language, suffix) ==
    <<base_path \o DotLanguage[default_language] \o suffix,
      base_path \o DotLanguage[language] \o suffix,
      base_path \o suffix>>

\* the paths a language expects
LangExpects(base_path, language, suffix) ==
    <<base_path \o DotLanguage[language] \o suffix,
      base_path \o DotLanguage[default_language] \o suffix,
      base_path \o suffix>>

\* the file main_files gets for main_page
MainEntry(fileobj, main_page, suffix, cfg) ==
    IF GetPageLang(main_page) = "" THEN main_page
    ELSE IF IsDocumentationPage(fileobj.src_path)
    THEN GetI18nPage(main_page, cfg)
    ELSE GetI18nAsset(main_page, suffix)

\* the file self.i18n_files[language] gets for lang_page
LangEntry(fileobj, lang_page, language, suffix, cfg) ==
    IF IsDocumentationPage(fileobj.src_path)
    THEN GetTranslatedPage(lang_page, language, cfg)
    ELSE GetTranslatedAsset(lang_page, language, suffix)

\* whether a base path key already in base_paths is skipped
SkipSeen(key, base_paths) == key \in base_paths

\* one turn of the loop over files; acc is [base_paths, main, i18n]
OnFilesFile(fileobj, fs, cfg, acc) ==
    LET base_path == GetBasePath(fileobj)
        suffix    == PathSuffix(StrPath(fileobj.src_path))
        key       == base_path \o suffix
        main_page == GetPageFromPaths(MainExpects(base_path, suffix), fs)
        main      == IF main_page = <<>> THEN acc.main
                     ELSE Append(acc.main, MainEntry(fileobj, main_page[1], suffix, cfg))
        lang_page == [language \in all_languages |->
                        GetPageFromPaths(LangExpects(base_path, language, suffix), fs)]
    IN  IF SkipSeen(key, acc.base_paths) THEN acc
        ELSE IF cfg.default_language_only THEN [acc EXCEPT !.main = main]
        ELSE [base_paths |->
                IF \E language \in all_languages : lang_page[language] /= <<>>
                THEN acc.base_paths \cup {key} ELSE acc.base_paths,
              main |-> main,
              i18n |-> [language \in all_languages |->
                          IF lang_page[language] = <<>> THEN acc.i18n[language]
                          ELSE Append(acc.i18n[language],
                                      LangEntry(fileobj, lang_page[language][1],
                                                language, suffix, cfg))]]

RECURSIVE OnFilesLoop(_, _, _, _)
OnFilesLoop(fs, cfg, i, acc) ==
    IF i > Len(fs) THEN acc
    ELSE OnFilesLoop(fs, cfg, i + 1, OnFilesFile(fs[i], fs, cfg, acc))

\* on_files(files, config): [main, i18n, base_paths]
OnFilesResult(fs, cfg) ==
    OnFilesLoop(fs, cfg, 1,
                [base_paths |-> {}, main |-> <<>>,
                 i18n |-> [language \in all_languages |-> <<>>]])

-----------------------------------------------------------------------------
(* The source trees of the model *)

SourceDirs == {<<>>, Str(<<"sub", "/">>), Str(<<"sub", "/", "v1", ".", "2", "/">>)}

SourceDocs == {<<"guide", "md">>, <<"index", "md">>, <<"logo", "png">>}

SourceTags == {""} \cup all_languages

SrcPath(dir, stem, tag, ext) ==
    dir \o Str(<<stem>>) \o (IF tag = "" THEN <<>> ELSE Str(<<".", tag>>)) \o Str(<<".", ext>>)

SourcePaths ==
    {SrcPath(dir, doc[1], tag, doc[2]) :
        dir \in SourceDirs, doc \in SourceDocs, tag \in SourceTags}

-----------------------------------------------------------------------------
(* The file-tree construction as a state machine *)

\* the parts of the plugin a specification leaves alone
FilesIdle ==
    /\ config = [use_directory_urls |-> TRUE, default_language_only |-> FALSE]
    /\ files = <<>>
    /\ main_files = <<>>
    /\ i18n_files = [language \in all_languages |-> <<>>]
    /\ pc = "idle"

IndexIdle == locale = "" /\ src_paths = <<>> /\ lookup = <<>>

NavIdle ==
    /\ nav = <<>>
    /\ nav_built = <<>>
    /\ nav_translations = <<>>
    /\ translated = FALSE
    /\ nav_calls = 0

SearchIdle ==
    /\ languages = <<>>
    /\ search_entries = <<>>
    /\ indexed = <<>>
    /\ post_pc = "idle"
    /\ post_i = 0
    /\ dedups = 0

Trees == {"main"} \cup all_languages

AltIdle ==
    /\ alt_config = [use_directory_urls |-> TRUE, material_alternate |-> FALSE,
                     default_language_only |-> FALSE, languages |-> <<>>]
    /\ material_alternates = <<>>
    /\ extra_alternate = [tree \in Trees |-> <<>>]
    /\ context_page = <<>>
    /\ alt_pc = "idle"

LocaleIdle ==
    /\ option = [kind |-> "none", str |-> <<>>, keys |-> <<>>]
    /\ validation = <<>>

Parts == {"nav", "extra", "theme", "search"}

ConfigsIdle ==
    /\ has_search = FALSE
    /\ cfg_parts = [tree \in Trees |-> [part \in Parts |-> 0]]
    /\ cfg_heap = <<>>
    /\ cfg_pc = "idle"
    /\ cfg_indexed = <<>>

\* a navigation configuration is a tree of nodes: a string, a list of nodes, or
\* a dict of keys and their nodes
NavStr(value) == [kind |-> "str", value |-> value, keys |-> <<>>, items |-> <<>>]

NavList(items) == [kind |-> "list", value |-> <<>>, keys |-> <<>>, items |-> items]

NavDict(keys, items) == [kind |-> "dict", value |-> <<>>, keys |-> keys, items |-> items]

NavConfigIdle ==
    /\ config_nav = NavList(<<>>)
    /\ i18n_nav = [language \in all_languages |-> NavList(<<>>)]
    /\ nav_sources = <<>>
    /\ nav_index = [language \in all_languages |-> <<>>]
    /\ nav_fixed = {"idle"}

Init ==
    /\ NavConfigIdle
    /\ ConfigsIdle
    /\ AltIdle
    /\ LocaleIdle
    /\ config \in [use_directory_urls : BOOLEAN, default_language_only : BOOLEAN]
    /\ files = <<>>
    /\ main_files = <<>>
    /\ i18n_files = [language \in all_languages |-> <<>>]
    /\ pc = "scan"
    /\ IndexIdle
    /\ NavIdle
    /\ SearchIdle

\* the source tree scan finds one more file
ScanFile(src_path) ==
    /\ pc = "scan"
    /\ Len(files) < MaxFiles
    /\ \A i \in 1..Len(files) : files[i].src_path /= src_path
    /\ files' = Append(files, File(src_path, config.use_directory_urls))
    /\ UNCHANGED <<config, main_files, i18n_files, pc, outsideFiles>>

\* I18n.on_files
OnFiles ==
    /\ pc = "scan"
    /\ \E r \in {OnFilesResult(files, config)} :
           /\ main_files' = r.main
           /\ i18n_files' = r.i18n
    /\ pc' = "built"
    /\ UNCHANGED <<config, files, outsideFiles>>

Next ==
    \/ \E src_path \in SourcePaths : ScanFile(src_path)
    \/ OnFiles

Spec == Init /\ [][Next]_vars

-----------------------------------------------------------------------------
(* What the claims about the file trees are stated in: the logical documents *)
(* of the source tree, taken from how the source paths were put together.    *)

Built == pc = "built"

\* the logical documents: <<directory, <<stem, extension>>>>
Documents == SourceDirs \X SourceDocs

DocPaths == [d \in Documents, tag \in SourceTags |-> SrcPath(d[1], d[2][1], tag, d[2][2])]

DocPath(d, tag) == DocPaths[d, tag]

VariantsOf == [d \in Documents |-> {DocPath(d, tag) : tag \in SourceTags}]

\* the tag variants of document d
Variants(d) == VariantsOf[d]

IsPageDoc(d) == d[2][2] = "md"

InSource(src_path) == \E i \in 1..Len(files) : files[i].src_path = src_path

\* the first path of the chain that the source tree holds; <<>> when none
RECURSIVE FirstInSource(_)
FirstInSource(chain) ==
    IF chain = <<>> THEN <<>>
    ELSE IF InSource(Head(chain)) THEN Head(chain)
    ELSE FirstInSource(Tail(chain))

\* target locale first, then default locale, then untagged
FallbackChain(d, language) ==
    <<DocPath(d, language), DocPath(d, default_language), DocPath(d, "")>>

\* untagged first, then default locale
MainChain(d) == <<DocPath(d, ""), DocPath(d, default_language)>>

\* the source paths of the entries tree holds for document d, in order
EntriesOf(tree, d) ==
    SelectSeq([i \in 1..Len(tree) |-> tree[i].src_path], LAMBDA q : q \in Variants(d))

\* tree holds for d exactly the entry of the winner, or none when there is none
Selects(tree, d, winner) ==
    EntriesOf(tree, d) = IF winner = <<>> THEN <<>> ELSE <<winner>>

TheDocument(src_path) == CHOOSE d \in Documents : src_path \in Variants(d)

TheTag(src_path) ==
    CHOOSE tag \in SourceTags : DocPath(TheDocument(src_path), tag) = src_path

\* the entries of every tree on_files built, each with its target: "" is the
\* main tree, a language is that language's index
AllEntries ==
    {[target |-> "", file |-> main_files[i]] : i \in 1..Len(main_files)}
    \cup UNION {{[target |-> language, file |-> i18n_files[language][i]] :
                    i \in 1..Len(i18n_files[language])} : language \in all_languages}

\* a destination and a URL under the output root of the target
DestUnder(target, dest) == IF target = "" THEN dest ELSE <<"/">> \o LanguageSlash[target] \o dest

UrlUnder(target, url) ==
    IF target = "" THEN url
    ELSE IF url = <<".">> THEN LanguageSlash[target]
    ELSE LanguageSlash[target] \o url

GuideMd == Str(<<"guide", ".", "md">>)

GuideEnMd == Str(<<"guide", ".", "en", ".", "md">>)

GuideFrMd == Str(<<"guide", ".", "fr", ".", "md">>)

SourceIs(paths) == [i \in 1..Len(files) |-> files[i].src_path] = paths

-----------------------------------------------------------------------------
(* C1 *)

\* C1 (as amended): when the language builds are not skipped, the index of
\* every locale L of the locale set, the default locale's own index included,
\* holds for every logical document the first existing one of b.L.s, b.D.s,
\* b.s, and the main tree that on_files returns holds the first existing one
\* of b.s, b.D.s.
C1_FallbackChain ==
    (Built /\ ~config.default_language_only) =>
        \A d \in Documents :
            /\ \A language \in all_languages :
                 Selects(i18n_files[language], d,
                         FirstInSource(FallbackChain(d, language)))
            /\ Selects(main_files, d, FirstInSource(MainChain(d)))

\* C1 witness: {guide.md, guide.en.md} built with directory URLs; the fr index
\* holds guide.en.md at /fr/guide/index.html and the main tree holds guide.md.
C1_Witness ==
    /\ Built /\ config.use_directory_urls /\ ~config.default_language_only
    /\ SourceIs(<<GuideMd, GuideEnMd>>)
    /\ Len(i18n_files["fr"]) = 1
    /\ i18n_files["fr"][1].src_path = GuideEnMd
    /\ i18n_files["fr"][1].dest_path = Str(<<"/", "fr", "/", "guide", "/", "index", ".", "html">>)
    /\ main_files[1].src_path = GuideMd

\* C1 (as claimed): the main tree, taken as the output of the default locale,
\* follows the same chain b.D.s, then b.s as the locale indexes.
C1_MainFollowsFallbackChain ==
    (Built /\ ~config.default_language_only) =>
        \A d \in Documents :
            /\ \A language \in all_languages \ {default_language} :
                 Selects(i18n_files[language], d,
                         FirstInSource(FallbackChain(d, language)))
            /\ Selects(main_files, d,
                       FirstInSource(FallbackChain(d, default_language)))

-----------------------------------------------------------------------------
(* C2 *)

HasLocalePrefix(language, file) ==
    /\ StartsWith(file.dest_path, <<"/">> \o LanguageSlash[language])
    /\ StartsWith(file.url, LanguageSlash[language])

\* C2: after on_files every entry of the index of a non-default locale L, pages
\* and static assets alike, whether its winning source file is tagged with L,
\* tagged with the default locale or untagged, has a destPath that starts with
\* /L/ and a url that starts with L/.
C2_EveryEntryPrefixed ==
    Built =>
        \A language \in all_languages \ {default_language} :
            \A i \in 1..Len(i18n_files[language]) :
                HasLocalePrefix(language, i18n_files[language][i])

-----------------------------------------------------------------------------
(* C3 *)

\* C3: whatever the plugin configuration, the main tree and every locale
\* index hold at most one entry per logical document.
C3_OneEntryPerDocument ==
    Built =>
        \A d \in Documents :
            /\ Len(EntriesOf(main_files, d)) <= 1
            /\ \A language \in all_languages :
                 Len(EntriesOf(i18n_files[language], d)) <= 1

-----------------------------------------------------------------------------
(* C6 *)

IsTaggedAsset(src_path) ==
    ~IsPageDoc(TheDocument(src_path)) /\ TheTag(src_path) /= ""

\* <parent>/<stem><suffix>: the directory of the source file unchanged, the
\* locale tag removed, the suffix kept
AssetDest(d) == d[1] \o Str(<<d[2][1], ".", d[2][2]>>)

\* C6: every locale-tagged static asset, whatever its directory, gets the
\* destination <parent>/<stem><suffix>, under the target's output root.
C6_AssetDestination ==
    Built =>
        \A e \in AllEntries :
            IsTaggedAsset(e.file.src_path) =>
                e.file.dest_path =
                    DestUnder(e.target, AssetDest(TheDocument(e.file.src_path)))

-----------------------------------------------------------------------------
(* C7 *)

IsTaggedPage(src_path) ==
    IsPageDoc(TheDocument(src_path)) /\ TheTag(src_path) /= ""

\* <parent>/index.html for an index page, <parent>/<stem>/index.html otherwise
PageDest(d) ==
    IF d[2][1] = "index" THEN d[1] \o IndexHtml
    ELSE d[1] \o Str(<<d[2][1], "/", "index">>) \o html

\* <parent>/ for an index page ("." at the tree root), <parent>/<stem>/ otherwise
PageUrl(d) ==
    IF d[2][1] = "index" THEN (IF d[1] = <<>> THEN <<".">> ELSE d[1])
    ELSE d[1] \o Str(<<d[2][1], "/">>)

\* C7: under directory-style URLs every entry made from a locale-tagged page,
\* in the main tree and in every locale index, has the destination
\* <parent>/index.html and the url <parent>/ when its stem is index, and
\* <parent>/<stem>/index.html and <parent>/<stem>/ otherwise, under the
\* target's output root; the url never holds index.html.
C7_DirectoryUrls ==
    (Built /\ config.use_directory_urls) =>
        \A e \in AllEntries :
            IsTaggedPage(e.file.src_path) =>
                LET d == TheDocument(e.file.src_path)
                IN  /\ e.file.dest_path = DestUnder(e.target, PageDest(d))
                    /\ e.file.url = UrlUnder(e.target, PageUrl(d))
                    /\ ~Contains(e.file.url, IndexHtml)

\* C7 witness: index.en.md at the tree root is "." in the main tree and fr/
\* in the fr index, beside a page that is not an index in a directory.
C7_Witness ==
    /\ Built /\ config.use_directory_urls
    /\ \E e \in AllEntries :
          /\ e.target = "" /\ e.file.src_path = Str(<<"index", ".", "en", ".", "md">>)
          /\ e.file.url = <<".">>
    /\ \E e \in AllEntries :
          /\ e.target = "fr" /\ e.file.src_path = Str(<<"index", ".", "en", ".", "md">>)
          /\ e.file.url = Str(<<"fr", "/">>)
    /\ \E e \in AllEntries :
          /\ e.target = "fr"
          /\ e.file.src_path = Str(<<"sub", "/", "guide", ".", "fr", ".", "md">>)
          /\ e.file.url = Str(<<"fr", "/", "sub", "/", "guide", "/">>)

-----------------------------------------------------------------------------
(* I18nFiles *)

\* expected_src_paths of __contains__ and get_file_from_path, each path as its
\* str(); ValueError when Path(path) has no name
ExpectedSrcPaths(path, index_locale, default_locale) ==
    LET expected_src_path == StrPath(path)
        suffix            == PathSuffix(expected_src_path)
    IN  IF PathName(expected_src_path) = <<>> THEN ValueError
        ELSE <<WithSuffix(expected_src_path, Str(<<".", index_locale>>) \o suffix),
               WithSuffix(expected_src_path, Str(<<".", default_locale>>) \o suffix),
               expected_src_path>>

InSeq(x, seq) == \E i \in 1..Len(seq) : seq[i] = x

\* filter(lambda s: Path(s) in expected_src_paths, self.src_paths): the keys of
\* src_paths whose path is expected, in the order of src_paths; ValueError
\* when expected_src_paths raised it
ExpectedFound(keys, path, index_locale, default_locale) ==
    LET expected_src_paths == ExpectedSrcPaths(path, index_locale, default_locale)
    IN  IF expected_src_paths = ValueError THEN ValueError
        ELSE SelectSeq(keys, LAMBDA s : InSeq(StrPath(s), expected_src_paths))

\* I18nFiles.__contains__; ValueError when expected_src_paths raised it
I18nFilesContains(keys, path, index_locale, default_locale) ==
    LET found == ExpectedFound(keys, path, index_locale, default_locale)
    IN  IF found = ValueError THEN ValueError ELSE found /= <<>>

\* I18nFiles.get_file_from_path: <<>> stands for None, <<k>> for the File that
\* src_paths holds under key k; ValueError when expected_src_paths raised it
I18nFilesGetFileFromPath(keys, path, index_locale, default_locale) ==
    LET found == ExpectedFound(keys, path, index_locale, default_locale)
    IN  IF found = ValueError THEN ValueError
        ELSE IF found = <<>> THEN <<>>
        ELSE IF InSeq(NormPath(Head(found)), keys) THEN <<NormPath(Head(found))>>
        ELSE <<>>

\* Files.append, on the keys of src_paths: a new key goes last
SrcPathsAppend(keys, src_path) ==
    IF InSeq(src_path, keys) THEN keys ELSE Append(keys, src_path)

-----------------------------------------------------------------------------
(* The index lookups as a state machine *)

\* what an index may hold: tag variants of documents, among them files whose
\* stem has a dot of its own (v1.0.en.md), which on_files takes for untagged
IndexStems == {<<Str(<<"guide">>), "md">>, <<Str(<<"logo">>), "png">>, <<Str(<<"v1", ".", "0">>), "md">>}

IndexPath(doc, tag) ==
    doc[1] \o (IF tag = "" THEN <<>> ELSE Str(<<".", tag>>)) \o Str(<<".", doc[2]>>)

IndexPaths == {IndexPath(doc, tag) : doc \in IndexStems, tag \in SourceTags}

InitIndex ==
    /\ NavConfigIdle
    /\ ConfigsIdle
    /\ AltIdle
    /\ LocaleIdle
    /\ FilesIdle
    /\ NavIdle
    /\ SearchIdle
    /\ locale \in all_languages
    /\ src_paths = <<>>
    /\ lookup = <<>>

\* Files.append
IndexAppend(src_path) ==
    /\ Len(src_paths) < MaxIndex
    /\ ~InSeq(src_path, src_paths)
    /\ src_paths' = SrcPathsAppend(src_paths, src_path)
    /\ lookup' = <<>>
    /\ UNCHANGED <<locale, outsideIndex>>

\* the paths looked up: every document as the index holds it and as a link
\* may write it, and the directory of the documents itself
LookupPaths ==
    {IndexPath(doc, "") : doc \in IndexStems}
        \cup {<<".", "/">> \o IndexPath(doc, "") : doc \in IndexStems}
        \cup {<<".">>}

\* path in files, and files.get_file_from_path(path); raised when they end in
\* a ValueError and return nothing
IndexLookup(path) ==
    /\ \E raised \in {ExpectedSrcPaths(path, locale, default_language) = ValueError} :
          lookup' = <<[path     |-> path,
                       raised   |-> raised,
                       contains |-> IF raised THEN FALSE
                                    ELSE I18nFilesContains(src_paths, path,
                                                           locale, default_language),
                       file     |-> IF raised THEN <<>>
                                    ELSE I18nFilesGetFileFromPath(src_paths, path,
                                                                  locale, default_language)]>>
    /\ UNCHANGED <<locale, src_paths, outsideIndex>>

NextIndex ==
    \/ \E src_path \in IndexPaths : IndexAppend(src_path)
    \/ \E path \in LookupPaths : IndexLookup(path)

SpecIndex == InitIndex /\ [][NextIndex]_vars

-----------------------------------------------------------------------------
(* C5 *)

\* the first of the candidates p-with-.L.s, p-with-.D.s, p that the index
\* holds; <<>> when it holds none
RECURSIVE FirstInIndex(_)
FirstInIndex(chain) ==
    IF chain = <<>> THEN <<>>
    ELSE IF InSeq(Head(chain), src_paths) THEN <<Head(chain)>>
    ELSE FirstInIndex(Tail(chain))

\* p with .tag put before its final suffix s
Tagged(p, tag) ==
    SubSeq(p, 1, RFind(p, ".") - 1) \o Str(<<".", tag>>) \o Drop(p, RFind(p, ".") - 1)

\* the candidates of a path, which denotes what its normal form denotes
Candidates(path) ==
    <<Tagged(StrPath(path), locale), Tagged(StrPath(path), default_language),
      StrPath(path)>>

\* C5: get_file_from_path(p) returns the entry of the first candidate, in the
\* priority order p-with-.L.s, p-with-.D.s, p, that the index holds, whatever
\* the insertion order; it returns nothing exactly when p in index is false.
C5_LookupByPriority ==
    \A i \in 1..Len(lookup) :
        ~lookup[i].raised =>
            /\ lookup[i].file = FirstInIndex(Candidates(lookup[i].path))
            /\ (lookup[i].file = <<>>) <=> ~lookup[i].contains

-----------------------------------------------------------------------------
(* I18n.on_nav *)

\* item.children: the nodes whose parent is item, in order
Children(nodes, item) ==
    SelectSeq([i \in 1..Len(nodes) |-> i], LAMBDA i : nodes[i].parent = item)

\* I18n._translate_navigation for a table that is not empty: the items of the
\* list in turn, each followed by its children
RECURSIVE TranslateNavigation(_, _, _)
TranslateNavigation(nodes, translated_nav, items) ==
    IF items = <<>> THEN nodes
    ELSE LET item  == Head(items)
             named == IF nodes[item].title \in DOMAIN translated_nav
                      THEN [nodes EXCEPT ![item].title = translated_nav[nodes[item].title]]
                      ELSE nodes
             inner == IF Children(named, item) /= <<>>
                      THEN TranslateNavigation(named, translated_nav, Children(named, item))
                      ELSE named
         IN  TranslateNavigation(inner, translated_nav, Tail(items))

\* on_nav translates with a table that is not always empty
ShouldTranslate_IgnoresFlag(files_translated, translated_nav) ==
    DOMAIN translated_nav /= {}

\* the condition of on_nav: not files.translated and a table for files.locale
ShouldTranslate(files_translated, translated_nav) ==
    ~files_translated /\ DOMAIN translated_nav /= {}

-----------------------------------------------------------------------------
(* on_nav as a state machine *)

NavTitles == {"A", "B"}

NavTranslatedTitles == {"A", "B", "X"}

\* the title-translation tables of a locale: functions from some titles
NavTables == UNION {[keys -> NavTranslatedTitles] : keys \in SUBSET NavTitles}

InitNav ==
    /\ NavConfigIdle
    /\ ConfigsIdle
    /\ AltIdle
    /\ LocaleIdle
    /\ FilesIdle
    /\ IndexIdle
    /\ SearchIdle
    /\ nav = <<>>
    /\ nav_built = <<>>
    /\ nav_translations \in NavTables
    /\ translated = FALSE
    /\ nav_calls = 0

\* the navigation builder puts one more node in the tree
NavAdd(title, parent) ==
    /\ nav_calls = 0
    /\ Len(nav) < MaxNavNodes
    /\ nav' = Append(nav, [title |-> title, parent |-> parent])
    /\ nav_built' = nav'
    /\ UNCHANGED <<nav_translations, translated, nav_calls, outsideNav>>

\* I18n.on_nav(nav, config, files) with files an I18nFiles
OnNav ==
    /\ nav_calls < MaxNavCalls
    /\ IF ShouldTranslate(translated, nav_translations)
       THEN /\ nav' = TranslateNavigation(nav, nav_translations, Children(nav, 0))
            /\ translated' = TRUE
       ELSE UNCHANGED <<nav, translated>>
    /\ nav_calls' = nav_calls + 1
    /\ UNCHANGED <<nav_built, nav_translations, outsideNav>>

NextNav ==
    \/ \E title \in NavTitles : \E parent \in 0..Len(nav) : NavAdd(title, parent)
    \/ OnNav

SpecNav == InitNav /\ [][NextNav]_vars

-----------------------------------------------------------------------------
(* C8 *)

\* one translation of a title: replaced when it is a key of the table
TranslatedOnce(title) ==
    IF title \in DOMAIN nav_translations THEN nav_translations[title] ELSE title

\* C8: however often on_nav was invoked with the same files, every node, at
\* every depth, has the title a single translation pass gives the title the
\* navigation builder gave it.
C8_TranslatedOnce ==
    nav_calls >= 1 =>
        /\ Len(nav) = Len(nav_built)
        /\ \A i \in 1..Len(nav) :
             /\ nav[i].title = TranslatedOnce(nav_built[i].title)
             /\ nav[i].parent = nav_built[i].parent

\* C8 witness: on_nav ran twice with a table in which a translated title is a
\* key again, on a tree with a translated node two levels down.
C8_Witness ==
    /\ nav_calls = 2
    /\ \E i, j \in 1..Len(nav) :
          /\ nav_built[i].title \in DOMAIN nav_translations
          /\ nav[i].title \in DOMAIN nav_translations
          /\ nav[i].title /= nav_built[i].title
          /\ nav_translations[nav[i].title] /= nav[i].title
          /\ nav[j].parent /= 0 /\ nav[nav[j].parent].parent /= 0
          /\ nav[j].title /= nav_built[j].title

-----------------------------------------------------------------------------
(* I18n._fix_search_duplicates *)

\* list.remove(x): without the first element equal to x
RECURSIVE RemoveFirst(_, _)
RemoveFirst(seq, x) ==
    IF seq = <<>> THEN <<>>
    ELSE IF Head(seq) = x THEN Tail(seq)
    ELSE <<Head(seq)>> \o RemoveFirst(Tail(seq), x)

\* expected_locations
ExpectedLocations(language, s_entry) ==
    {LanguageSlash[language] \o s_entry.location,
     LanguageSlash[language] \o RStrip(s_entry.location, "/"),
     LanguageSlash[language] \o Replace(s_entry.location, <<"/", "#">>, <<"#">>)}

\* the two conditions under which entry is removed for s_entry
IsDuplicate(entry, s_entry, language) ==
    /\ entry.location \in ExpectedLocations(language, s_entry)
    /\ entry.text = s_entry.text

\* the loop over search_plugin.search_index._entries for one entry of the copy;
\* the list is the one entries are removed from, so a removal moves what the
\* loop gets next.  r is [entries, ok]; ok is FALSE after list.remove raised
\* ValueError.
RECURSIVE FixForEntry(_, _, _, _)
FixForEntry(r, entry, language, i) ==
    IF ~r.ok \/ i > Len(r.entries) THEN r
    ELSE IF IsDuplicate(entry, r.entries[i], language)
    THEN IF InSeq(entry, r.entries)
         THEN FixForEntry([r EXCEPT !.entries = RemoveFirst(r.entries, entry)],
                          entry, language, i + 1)
         ELSE [r EXCEPT !.ok = FALSE]
    ELSE FixForEntry(r, entry, language, i + 1)

\* the loop over the deep copy of the entries
RECURSIVE FixForCopy(_, _, _, _)
FixForCopy(r, copy, language, k) ==
    IF ~r.ok \/ k > Len(copy) THEN r
    ELSE IF StartsWith(copy[k].location, LanguageSlash[language])
    THEN FixForCopy(FixForEntry(r, copy[k], language, 1), copy, language, k + 1)
    ELSE FixForCopy(r, copy, language, k + 1)

\* I18n._fix_search_duplicates(language, search_plugin)
FixSearchDuplicates(language, entries) ==
    FixForCopy([entries |-> entries, ok |-> TRUE], entries, language, 1)

\* on_post_build: whether the duplicates of the language just built are fixed;
\* search_plugin is whether config["plugins"] has a search plugin
FixesDuplicates(language, langs, search_plugin) ==
    /\ search_plugin
    /\ language = default_language
    /\ InSeq(default_language, langs)

-----------------------------------------------------------------------------
(* on_post_build and the search index as a state machine *)

\* the locations the main build indexes: a page and a section of it
MainLocations == {Str(<<"guide", "/">>), Str(<<"guide", "/", "#", "a">>)}

\* the locations a language build indexes, after the language's own prefix:
\* those of the main build and, for the default language, whose entries are the
\* ones compared, the same without the slash the page URL ends in
LocaleLocations(language) ==
    IF language = default_language
    THEN MainLocations \cup {Str(<<"guide">>), Str(<<"guide", "#", "a">>)}
    ELSE MainLocations

SearchTexts == {"T", "U"}

\* the configured languages, in the order of the configuration
LanguageOrders == {<<"en", "fr">>, <<"fr", "en">>, <<"fr">>}

HasLocation(entries, location) ==
    \E i \in 1..Len(entries) : entries[i].location = location

\* the plugin is configured with or without default_language_only, the site
\* with or without a search plugin
InitSearch ==
    /\ NavConfigIdle
    /\ AltIdle
    /\ LocaleIdle
    /\ IndexIdle
    /\ NavIdle
    /\ config \in [use_directory_urls : {TRUE}, default_language_only : BOOLEAN]
    /\ files = <<>>
    /\ main_files = <<>>
    /\ i18n_files = [language \in all_languages |-> <<>>]
    /\ pc = "idle"
    /\ has_search \in BOOLEAN
    /\ cfg_parts = [tree \in Trees |-> [part \in Parts |-> 0]]
    /\ cfg_heap = <<>>
    /\ cfg_pc = "idle"
    /\ cfg_indexed = <<>>
    /\ languages \in LanguageOrders
    /\ search_entries = <<>>
    /\ indexed = <<>>
    /\ post_pc = "main"
    /\ post_i = 0
    /\ dedups = 0

\* the main build renders a page: the search plugin, if there is one, indexes it
MainBuildPage(location, text) ==
    /\ post_pc = "main"
    /\ has_search
    /\ Len(search_entries) < MaxMainEntries
    /\ ~HasLocation(search_entries, location)
    /\ search_entries' = Append(search_entries, [location |-> location, text |-> text])
    /\ indexed' = Append(indexed, [location |-> location, text |-> text])
    /\ UNCHANGED <<languages, post_pc, post_i, dedups, outsideSearch>>

\* on_post_build is called with default_language_only: it returns at once, no
\* language is built
OnPostBuildSkip ==
    /\ post_pc = "main"
    /\ config.default_language_only
    /\ post_pc' = "done"
    /\ UNCHANGED <<languages, search_entries, indexed, post_i, dedups, outsideSearch>>

\* on_post_build is called: the loop over self.config["languages"] starts
OnPostBuildStart ==
    /\ post_pc = "main"
    /\ ~config.default_language_only
    /\ post_pc' = IF languages = <<>> THEN "done" ELSE "render"
    /\ post_i' = IF languages = <<>> THEN 0 ELSE 1
    /\ UNCHANGED <<languages, search_entries, indexed, dedups, outsideSearch>>

\* the entries the build of a language has added so far
LocaleEntryCount(language) ==
    Cardinality({i \in 1..Len(indexed) :
                    StartsWith(indexed[i].location, LanguageSlash[language])})

\* _build_page for a page of the language being built: the search plugin, if
\* there is one, indexes it under the language's URL prefix
BuildLocalePage(location, text) ==
    /\ post_pc = "render"
    /\ has_search
    /\ location \in LocaleLocations(languages[post_i])
    /\ LET entry == [location |-> LanguageSlash[languages[post_i]] \o location,
                     text |-> text]
       IN  /\ LocaleEntryCount(languages[post_i]) < MaxLocaleEntries
           /\ ~HasLocation(search_entries, entry.location)
           /\ search_entries' = Append(search_entries, entry)
           /\ indexed' = Append(indexed, entry)
    /\ UNCHANGED <<languages, post_pc, post_i, dedups, outsideSearch>>

\* the end of the loop body: the search plugin index is updated with the
\* language's pages, and the loop goes on with the next language
UpdateSearch ==
    /\ post_pc = "render"
    /\ \E r \in {IF FixesDuplicates(languages[post_i], languages, has_search)
                 THEN FixSearchDuplicates(languages[post_i], search_entries)
                 ELSE [entries |-> search_entries, ok |-> TRUE]} :
           /\ search_entries' = r.entries
           /\ post_pc' = IF ~r.ok THEN "failed"
                         ELSE IF post_i = Len(languages) THEN "done"
                         ELSE "render"
           /\ post_i' = IF r.ok /\ post_i < Len(languages) THEN post_i + 1 ELSE post_i
           /\ dedups' = IF FixesDuplicates(languages[post_i], languages, has_search)
                        THEN dedups + 1 ELSE dedups
    /\ UNCHANGED <<languages, indexed, outsideSearch>>

NextSearch ==
    \/ \E location \in MainLocations, text \in SearchTexts : MainBuildPage(location, text)
    \/ OnPostBuildSkip
    \/ OnPostBuildStart
    \/ \E location \in LocaleLocations(default_language), text \in SearchTexts :
          BuildLocalePage(location, text)
    \/ UpdateSearch

SpecSearch == InitSearch /\ [][NextSearch]_vars

-----------------------------------------------------------------------------
(* C4 *)

\* a location without the slash before its anchor and without a trailing slash
Canonical(location) == RStrip(Replace(location, <<"/", "#">>, <<"#">>), "/")

\* entry is at language/x and s_entry at x, up to the trailing-slash and anchor
\* variants, with the same text
SameUnderLocale(entry, s_entry, language) ==
    /\ StartsWith(entry.location, LanguageSlash[language])
    /\ Canonical(Drop(entry.location, Len(LanguageSlash[language]))) =
           Canonical(s_entry.location)
    /\ entry.text = s_entry.text

\* C4: after on_post_build completes for a locale set that holds the default
\* locale, no entry at L/x, for any configured locale L, is left beside an
\* entry at x (up to the trailing-slash and anchor variants) with identical
\* text: the entry at L/x has been removed.
C4_EveryLocaleDuplicates ==
    (post_pc = "done" /\ InSeq(default_language, languages)) =>
        \A k \in 1..Len(search_entries) :
            \A i \in 1..Len(languages) :
                ~\E j \in 1..Len(search_entries) :
                    SameUnderLocale(search_entries[k], search_entries[j], languages[i])

-----------------------------------------------------------------------------
(* on_config: the language selector, and on_page_context *)

\* self.config["languages"]: the display name of each language
LanguageNames ==
    [language \in all_languages |-> IF language = "en" THEN "English" ELSE "Francais"]

\* the orders a loop over a set may take its elements in
Orders(S) ==
    {order \in [1..Cardinality(S) -> S] :
        \A i, j \in 1..Cardinality(S) : order[i] = order[j] => i = j}

\* link_suffix
LinkSuffix(cfg) == IF ~cfg.use_directory_urls THEN IndexHtml ELSE <<>>

\* the alternate of the default language: its name is the one configured for
\* it, or the language itself when it is not among the configured languages
DefaultAlternate(cfg) ==
    [name |-> IF InSeq(default_language, cfg.languages)
              THEN LanguageNames[default_language]
              ELSE default_language,
     link |-> <<".", "/">> \o LinkSuffix(cfg),
     lang |-> default_language]

\* the alternate of another language
LanguageAlternate(language, cfg) ==
    [name |-> LanguageNames[language],
     link |-> <<".", "/">> \o LanguageSlash[language] \o LinkSuffix(cfg),
     lang |-> language]

\* config["extra"]["alternate"] as on_config builds it; others is the order the
\* loop over self.all_languages takes the languages other than the default in
BuildAlternates(cfg, others) ==
    <<DefaultAlternate(cfg)>>
        \o [i \in 1..Len(others) |-> LanguageAlternate(others[i], cfg)]

\* the files of a tree, main or of a language, for a source tree of one file
TreeFiles(tree, src_path, cfg) ==
    LET r == OnFilesResult(<<File(src_path, cfg.use_directory_urls)>>,
                           [use_directory_urls |-> cfg.use_directory_urls,
                            default_language_only |-> cfg.default_language_only])
    IN  IF tree = "main" THEN r.main ELSE r.i18n[tree]

\* mkdocs Page.url of the page of a file
PageUrlOf(file) == IF file.url = <<".">> THEN <<>> ELSE file.url

\* page_url: page.url without the language prefix it starts with, if any
StripLanguage(url) ==
    IF \E language \in all_languages : StartsWith(url, LanguageSlash[language])
    THEN LET language == CHOOSE l \in all_languages : StartsWith(url, LanguageSlash[l])
             prefix_len == Len(WordChars(language)) + 1
         IN  Drop(url, prefix_len)
    ELSE url

\* alternate["link"] after the loop body of on_page_context
ContextualLink(link, page_url, cfg) ==
    LET separator == IF EndsWith(link, <<"/">>) THEN <<>> ELSE <<"/">>
        base      == IF ~cfg.use_directory_urls
                     THEN ReplaceFirst(link, <<"/">> \o IndexHtml, <<>>)
                     ELSE link
    IN  base \o separator \o page_url

\* alternates at the end of on_page_context
ContextualAlternates(alternates, url, cfg) ==
    [i \in 1..Len(alternates) |->
        [alternates[i] EXCEPT !.link = ContextualLink(@, StripLanguage(url), cfg)]]

\* MaterialAfterContext when alternates is self.material_alternates itself
MaterialAfterContext_Aliased(material, alternates) == alternates

\* self.material_alternates at the end of on_page_context: alternates is a deep
\* copy of it, the links of the copy are the ones changed
MaterialAfterContext(material, alternates) == material

\* the pages rendered: at the root, in a directory, tagged, in a directory
\* that has the name of a language, in a directory whose name holds the name
\* of the page, with another of the markdown extensions, and with a character
\* that a URL quotes
AltSources ==
    {Str(<<"index", ".", "md">>),
     Str(<<"m", "y", " ", "guide", ".", "md">>),
     Str(<<"guide", ".", "fr", "/", "guide", ".", "fr", ".", "md">>),
     Str(<<"other", ".", "markdown">>),
     Str(<<"guide", ".", "md">>),
     Str(<<"guide", ".", "fr", ".", "md">>),
     Str(<<"sub", "/", "guide", ".", "md">>),
     Str(<<"fr", "/", "guide", ".", "md">>),
     Str(<<"fr", "/", "index", ".", "md">>)}

InitAlt ==
    /\ NavConfigIdle
    /\ ConfigsIdle
    /\ FilesIdle
    /\ IndexIdle
    /\ NavIdle
    /\ SearchIdle
    /\ LocaleIdle
    /\ alt_config \in [use_directory_urls : BOOLEAN, material_alternate : BOOLEAN,
                       default_language_only : BOOLEAN, languages : LanguageOrders]
    /\ material_alternates = <<>>
    /\ extra_alternate = [tree \in Trees |-> <<>>]
    /\ context_page = <<>>
    /\ alt_pc = "config"

\* I18n.on_config, with a mkdocs-material that has the language selector
OnConfig ==
    /\ alt_pc = "config"
    /\ alt_pc' = "files"
    /\ IF alt_config.default_language_only
       THEN UNCHANGED <<material_alternates, extra_alternate>>
       ELSE IF alt_config.material_alternate /\ Cardinality(all_languages) > 1
       THEN \E others \in Orders(all_languages \ {default_language}) :
               LET alternate == IF extra_alternate["main"] = <<>>
                                THEN BuildAlternates(alt_config, others)
                                ELSE extra_alternate["main"]
               IN  /\ extra_alternate' = [extra_alternate EXCEPT !["main"] = alternate]
                   /\ material_alternates' = alternate
       ELSE UNCHANGED <<material_alternates, extra_alternate>>
    /\ UNCHANGED <<alt_config, context_page, outsideAlt>>

\* on_files: every language gets a deep copy of the configuration
CopyConfigs ==
    /\ alt_pc = "files"
    /\ alt_pc' = "render"
    /\ extra_alternate' = [tree \in Trees |-> extra_alternate["main"]]
    /\ UNCHANGED <<alt_config, material_alternates, context_page, outsideAlt>>

\* I18n.on_page_context for the page of src_path in a tree, with the
\* configuration of that tree
OnPageContext(tree, src_path) ==
    /\ alt_pc = "render"
    /\ \E tree_files \in {TreeFiles(tree, src_path, alt_config)} :
           /\ tree_files /= <<>>
           /\ context_page' = <<[tree |-> tree, src_path |-> src_path,
                                 url |-> PageUrlOf(tree_files[1])]>>
           /\ IF material_alternates = <<>>
              THEN UNCHANGED <<extra_alternate, material_alternates>>
              ELSE \E alternates \in {ContextualAlternates(material_alternates,
                                                            PageUrlOf(tree_files[1]),
                                                            alt_config)} :
                       /\ extra_alternate' = [extra_alternate EXCEPT ![tree] = alternates]
                       /\ material_alternates' =
                              MaterialAfterContext(material_alternates, alternates)
    /\ UNCHANGED <<alt_config, alt_pc, outsideAlt>>

NextAlt ==
    \/ OnConfig
    \/ CopyConfigs
    \/ \E tree \in Trees, src_path \in AltSources : OnPageContext(tree, src_path)

SpecAlt == InitAlt /\ [][NextAlt]_vars

-----------------------------------------------------------------------------
(* C9 *)

\* the output root of a language
LocaleRoot(language) ==
    IF language = default_language THEN <<".", "/">> ELSE <<".", "/">> \o LanguageSlash[language]

\* the URL of a page without the root of the tree the page belongs to
AgnosticSuffix(page) ==
    IF page.tree = "main" THEN page.url ELSE Drop(page.url, Len(LanguageSlash[page.tree]))

AlternatesFor(page, alternates) ==
    /\ Len(alternates) = Cardinality(all_languages)
    /\ alternates[1].lang = default_language
    /\ \A M \in all_languages :
          Cardinality({i \in 1..Len(alternates) : alternates[i].lang = M}) = 1
    /\ \A i \in 1..Len(alternates) :
          alternates[i].link = LocaleRoot(alternates[i].lang) \o AgnosticSuffix(page)

\* C9: for every rendered page, in the main tree or in the tree of a language,
\* under both URL styles, on_page_context leaves one alternate per language,
\* the default language first, and the link of language M is the root of M
\* (./ for the default language, ./M/ otherwise) followed by the URL of the
\* page without the root of its own tree, which is cut if and only if the page
\* belongs to the tree of a language.
C9_ContextualAlternates ==
    (context_page /= <<>> /\ material_alternates /= <<>>) =>
        AlternatesFor(context_page[1], extra_alternate[context_page[1].tree])

\* the same for the pages whose source is not in a directory with the name of a
\* language
C9_OutsideLanguageDirectories ==
    (/\ context_page /= <<>>
     /\ material_alternates /= <<>>
     /\ ~StartsWith(context_page[1].src_path, Str(<<"fr", "/">>))) =>
        AlternatesFor(context_page[1], extra_alternate[context_page[1].tree])

-----------------------------------------------------------------------------
(* Locale: the validation of default_language and languages *)

\* a value is a sequence of characters
LowerChars == {"e"}

UpperChars == {"B"}

Chars == LowerChars \cup UpperChars \cup {"_", "-", "\n"}

IsLower(c) == c \in LowerChars

IsUpper(c) == c \in UpperChars

\* $ of a regular expression at place i of value: at the end of the string, and
\* before a newline that is its last character
AtDollar(value, i) ==
    \/ i = Len(value) + 1
    \/ i = Len(value) /\ value[i] = "\n"

\* (^[a-z]{2}_[A-Z]{2}$)
MatchTerritory(value) ==
    /\ Len(value) >= 5
    /\ IsLower(value[1]) /\ IsLower(value[2])
    /\ value[3] = "_"
    /\ IsUpper(value[4]) /\ IsUpper(value[5])
    /\ AtDollar(value, 6)

\* (^[a-z]{2}$)
MatchLanguage(value) ==
    /\ Len(value) >= 2
    /\ IsLower(value[1]) /\ IsLower(value[2])
    /\ AtDollar(value, 3)

\* RE_LOCALE.match(value)
ReLocaleMatch(value) == MatchTerritory(value) \/ MatchLanguage(value)

\* the first of the values that _validate_locale raises for: <<>> or <<value>>
RECURSIVE ValidateLocale(_)
ValidateLocale(values) ==
    IF values = <<>> THEN <<>>
    ELSE IF ~ReLocaleMatch(Head(values)) THEN <<Head(values)>>
    ELSE ValidateLocale(Tail(values))

\* Locale.run_validation: [ok, value], value the one the ValidationError carries
RunValidation(opt) ==
    LET raised == IF opt.kind = "str" THEN ValidateLocale(<<opt.str>>)
                  ELSE ValidateLocale(opt.keys)
    IN  IF raised = <<>> THEN [ok |-> TRUE, value |-> <<>>]
        ELSE [ok |-> FALSE, value |-> raised[1]]

\* the keys of a languages mapping
SampleKeys ==
    {<<"e", "e">>, <<"e", "e", "_", "B", "B">>, <<"B", "B">>, <<"e", "e", "\n">>}

InitLocale ==
    /\ NavConfigIdle
    /\ ConfigsIdle
    /\ FilesIdle
    /\ IndexIdle
    /\ NavIdle
    /\ SearchIdle
    /\ AltIdle
    /\ option \in {[kind |-> "str", str |-> <<>>, keys |-> <<>>],
                   [kind |-> "dict", str |-> <<>>, keys |-> <<>>]}
    /\ validation = <<>>

\* one more character of a default_language value
TypeChar(c) ==
    /\ option.kind = "str"
    /\ validation = <<>>
    /\ Len(option.str) < MaxLocaleLen
    /\ option' = [option EXCEPT !.str = Append(@, c)]
    /\ UNCHANGED <<validation, outsideLocale>>

\* one more key of a languages value
AddKey(key) ==
    /\ option.kind = "dict"
    /\ validation = <<>>
    /\ Len(option.keys) < MaxKeys
    /\ ~InSeq(key, option.keys)
    /\ option' = [option EXCEPT !.keys = Append(@, key)]
    /\ UNCHANGED <<validation, outsideLocale>>

\* Locale.run_validation(value)
Validate ==
    /\ validation = <<>>
    /\ validation' = <<RunValidation(option)>>
    /\ UNCHANGED <<option, outsideLocale>>

NextLocale ==
    \/ \E c \in Chars : TypeChar(c)
    \/ \E key \in SampleKeys : AddKey(key)
    \/ Validate

SpecLocale == InitLocale /\ [][NextLocale]_vars

-----------------------------------------------------------------------------
(* C10 *)

\* exactly two lower-case letters, or two lower-case letters, an underscore and
\* two upper-case letters
WellFormedLocale(c) ==
    \/ /\ Len(c) = 2
       /\ IsLower(c[1]) /\ IsLower(c[2])
    \/ /\ Len(c) = 5
       /\ IsLower(c[1]) /\ IsLower(c[2])
       /\ c[3] = "_"
       /\ IsUpper(c[4]) /\ IsUpper(c[5])

\* the strings the validation of an option is about
Validated(opt) ==
    IF opt.kind = "str" THEN {opt.str} ELSE {opt.keys[i] : i \in 1..Len(opt.keys)}

\* C10: the validation of a Locale option succeeds if and only if the string,
\* or every key of the mapping, is exactly two lower-case letters or two
\* lower-case letters, an underscore and two upper-case letters; a failure
\* carries an offending value.
C10_LocaleValidation ==
    validation /= <<>> =>
        /\ validation[1].ok <=> \A c \in Validated(option) : WellFormedLocale(c)
        /\ ~validation[1].ok =>
              /\ validation[1].value \in Validated(option)
              /\ ~WellFormedLocale(validation[1].value)

\* the same for the values that do not end in a newline
C10_WithoutTrailingNewline ==
    (/\ validation /= <<>>
     /\ \A c \in Validated(option) : c = <<>> \/ c[Len(c)] /= "\n") =>
        /\ validation[1].ok <=> \A c \in Validated(option) : WellFormedLocale(c)
        /\ ~validation[1].ok =>
              /\ validation[1].value \in Validated(option)
              /\ ~WellFormedLocale(validation[1].value)

-----------------------------------------------------------------------------
(* The configurations of the builds: the global one and a copy per language *)

\* copy.deepcopy of one object: a new object with the same contents
DeepCopyPart(r, part) ==
    IF r.from[part] = 0 THEN r
    ELSE [r EXCEPT !.parts[part] = Len(r.heap) + 1,
                   !.heap = Append(r.heap, r.heap[r.from[part]])]

\* a copy that refers to the objects of the original
DeepCopy_Shallow(cfg, heap) == [from |-> cfg, parts |-> cfg, heap |-> heap]

\* deepcopy(config): [parts, heap], the copy and the heap that holds its objects
DeepCopy(cfg, heap) ==
    DeepCopyPart(DeepCopyPart(DeepCopyPart(DeepCopyPart(
        [from |-> cfg, parts |-> [part \in Parts |-> 0], heap |-> heap],
        "nav"), "extra"), "theme"), "search")

\* self.i18n_configs[language]["plugins"]["search"] = config["plugins"]["search"]
ShareSearch(parts, cfg, search) ==
    IF search THEN [parts EXCEPT !.search = cfg.search] ELSE parts

\* the loop of on_files over self.all_languages, taken in the given order;
\* st is [parts, heap]
RECURSIVE CopyForLanguages(_, _, _, _)
CopyForLanguages(st, order, i, search) ==
    IF i > Len(order) THEN st
    ELSE LET copy == DeepCopy(st.parts["main"], st.heap)
         IN  CopyForLanguages(
                 [parts |-> [st.parts EXCEPT ![order[i]] =
                                ShareSearch(copy.parts, st.parts["main"], search)],
                  heap  |-> copy.heap],
                 order, i + 1, search)

\* the global configuration as on_config leaves it
MainParts(search) ==
    [part \in Parts |->
        CASE part = "nav" -> 1
          [] part = "extra" -> 2
          [] part = "theme" -> 3
          [] part = "search" -> IF search THEN 4 ELSE 0]

MainHeap(search) ==
    <<[items |-> "main"], [alternate |-> "main"], [language |-> default_language]>>
        \o (IF search THEN <<[entries |-> <<>>]>> ELSE <<>>)

InitConfigs ==
    /\ NavConfigIdle
    /\ FilesIdle
    /\ IndexIdle
    /\ NavIdle
    /\ SearchIdle
    /\ AltIdle
    /\ LocaleIdle
    /\ has_search \in BOOLEAN
    /\ cfg_parts = [tree \in Trees |->
                      IF tree = "main" THEN MainParts(has_search)
                      ELSE [part \in Parts |-> 0]]
    /\ cfg_heap = MainHeap(has_search)
    /\ cfg_pc = "files"
    /\ cfg_indexed = <<>>

\* on_files: self.i18n_configs[language] for every language
OnFilesConfigs ==
    /\ cfg_pc = "files"
    /\ cfg_pc' = "build"
    /\ \E order \in Orders(all_languages) :
          LET st == CopyForLanguages([parts |-> cfg_parts, heap |-> cfg_heap],
                                     order, 1, has_search)
          IN  /\ cfg_parts' = st.parts
              /\ cfg_heap' = st.heap
    /\ UNCHANGED <<has_search, cfg_indexed, outsideConfigs>>

\* the builds a tree takes part in are running: the main build and the build
\* of the default language come before _fix_search_duplicates, the builds of
\* the other languages before or after it
Builds(tree) ==
    \/ cfg_pc = "build"
    \/ cfg_pc = "fixed" /\ tree \notin {"main", default_language}

\* on_post_build: config["theme"].language = language
SetThemeLanguage(language) ==
    /\ Builds(language)
    /\ cfg_heap' = [cfg_heap EXCEPT ![cfg_parts[language].theme].language = language]
    /\ UNCHANGED <<has_search, cfg_parts, cfg_pc, cfg_indexed, outsideConfigs>>

\* on_page_context for a page of a tree: config["extra"]["alternate"] = alternates
SetExtraAlternate(tree) ==
    /\ Builds(tree)
    /\ cfg_heap' = [cfg_heap EXCEPT ![cfg_parts[tree].extra].alternate = tree]
    /\ UNCHANGED <<has_search, cfg_parts, cfg_pc, cfg_indexed, outsideConfigs>>

\* _fix_config_navigation: self.i18n_configs[language]["nav"] is a new list
SetNav(language) ==
    /\ Builds(language)
    /\ Len(cfg_heap) < MaxObjects
    /\ cfg_heap' = Append(cfg_heap, [items |-> language])
    /\ cfg_parts' = [cfg_parts EXCEPT ![language].nav = Len(cfg_heap) + 1]
    /\ UNCHANGED <<has_search, cfg_pc, cfg_indexed, outsideConfigs>>

\* the location of the search entry of the page guide.md in the build of a
\* tree: under the language's URL prefix for a language
PageLocation(tree) ==
    IF tree = "main" THEN Str(<<"guide", "/">>)
    ELSE LanguageSlash[tree] \o Str(<<"guide", "/">>)

\* the build of the page of a tree: the search plugin of the configuration of
\* the tree appends its entry to its search index
IndexPage(tree, text) ==
    /\ Builds(tree)
    /\ cfg_parts[tree].search /= 0
    /\ LET entry == [location |-> PageLocation(tree), text |-> text]
           index == cfg_heap[cfg_parts[tree].search].entries
       IN  /\ ~HasLocation(cfg_indexed, entry.location)
           /\ cfg_heap' = [cfg_heap EXCEPT ![cfg_parts[tree].search].entries =
                              Append(index, entry)]
           /\ cfg_indexed' = Append(cfg_indexed, entry)
    /\ UNCHANGED <<has_search, cfg_parts, cfg_pc, outsideConfigs>>

\* on_post_build, when the pages of the default language are built:
\* self._fix_search_duplicates(language, search_plugin), search_plugin being
\* config["plugins"].get("search") of the global configuration; entries are
\* removed from its search index
OnPostBuildFixDuplicates ==
    /\ cfg_pc = "build"
    /\ cfg_parts["main"].search /= 0
    /\ \E r \in {FixSearchDuplicates(default_language,
                                     cfg_heap[cfg_parts["main"].search].entries)} :
          /\ cfg_heap' = [cfg_heap EXCEPT ![cfg_parts["main"].search].entries =
                             r.entries]
          /\ cfg_pc' = IF r.ok THEN "fixed" ELSE "failed"
    /\ UNCHANGED <<has_search, cfg_parts, cfg_indexed, outsideConfigs>>

\* a change made through the configuration of a tree; the search plugin whose
\* duplicates are fixed is the one the global configuration refers to, and the
\* call is made in the build of the default language
MutationOf(tree) ==
    \/ tree \in all_languages /\ SetThemeLanguage(tree)
    \/ SetExtraAlternate(tree)
    \/ tree \in all_languages /\ SetNav(tree)
    \/ \E text \in SearchTexts : IndexPage(tree, text)
    \/ tree \in {"main", default_language} /\ OnPostBuildFixDuplicates

NextConfigs ==
    \/ OnFilesConfigs
    \/ \E language \in all_languages : SetThemeLanguage(language)
    \/ \E tree \in Trees : SetExtraAlternate(tree)
    \/ \E language \in all_languages : SetNav(language)
    \/ \E tree \in Trees, text \in SearchTexts : IndexPage(tree, text)
    \/ OnPostBuildFixDuplicates

SpecConfigs == InitConfigs /\ [][NextConfigs]_vars

-----------------------------------------------------------------------------
(* C11 *)

\* what a configuration shows of a part: <<>> for none, <<contents>>
Shown(tree, part) ==
    IF cfg_parts[tree][part] = 0 THEN <<>> ELSE <<cfg_heap[cfg_parts[tree][part]]>>

\* two configurations have an object in common among the given parts
Shares(t, u, parts) ==
    \E p, q \in parts : cfg_parts[t][p] /= 0 /\ cfg_parts[t][p] = cfg_parts[u][q]

\* on_files has made the copies of the configuration
Copied == cfg_pc \in {"build", "fixed", "failed"}

\* C11 (as amended): after on_files the configurations of two languages, and a
\* language's and the global one, have no object in common but the search
\* plugin, which is the one object of the global configuration in all of them
\* when the global configuration has one; a change made through one
\* configuration to its nav, extra or theme never shows through another, and
\* a change of the search index made in one build, be it an entry that a page
\* build appends or an entry that _fix_search_duplicates removes, shows
\* through all of them.
C11_OnlySearchShared ==
    /\ [](Copied =>
            \A t, u \in Trees :
                /\ t /= u => ~Shares(t, u, Parts \ {"search"})
                /\ cfg_parts[t].search = cfg_parts["main"].search)
    /\ [][\A t \in Trees : MutationOf(t) =>
              \A u \in Trees \ {t} :
                  /\ \A part \in Parts \ {"search"} : Shown(u, part)' = Shown(u, part)
                  /\ Shown(u, "search")' = Shown(t, "search")']_vars

\* an entry of the search index of the model
PageEntry(tree, text) == [location |-> PageLocation(tree), text |-> text]

\* C11 witness: the fr build has set its theme language, and the themes of the
\* other configurations show the default language; the main build, the en
\* build and the fr build have indexed the page with the same text, and
\* _fix_search_duplicates has removed the entry of the en build: every
\* configuration shows the search index without it
C11_Witness ==
    /\ cfg_pc = "fixed"
    /\ has_search
    /\ Shown("fr", "theme") = <<[language |-> "fr"]>>
    /\ Shown("en", "theme") = <<[language |-> default_language]>>
    /\ Shown("main", "theme") = <<[language |-> default_language]>>
    /\ \A tree \in Trees : InSeq(PageEntry(tree, "T"), cfg_indexed)
    /\ \A tree \in Trees :
          Shown(tree, "search") =
              <<[entries |-> <<PageEntry("main", "T"), PageEntry("fr", "T")>>]>>

\* C11 (as claimed): after on_files no two configurations have an object in
\* common, and a change made through one of them never shows through another.
C11_NothingShared ==
    /\ [](Copied => \A t, u \in Trees : t /= u => ~Shares(t, u, Parts))
    /\ [][\A t \in Trees : MutationOf(t) =>
              \A u \in Trees \ {t} :
                  \A part \in Parts : Shown(u, part)' = Shown(u, part)]_vars

-----------------------------------------------------------------------------
(* C12 *)

\* a page build has appended an entry to the search index
Appends == Len(indexed') > Len(indexed)

\* the run builds the languages of a site with a search plugin, the default
\* language being one of them
BuildsWithSearch ==
    /\ ~config.default_language_only
    /\ has_search
    /\ InSeq(default_language, languages)

\* C12: in every run of on_post_build that builds the languages of a site with
\* a search plugin, the default language among them, for every order of the
\* configured languages, search deduplication executes exactly once, after the
\* render phase of every configured language has finished; nothing is
\* appended to the search index after it has run.
C12_DedupAfterEveryRender ==
    /\ []((post_pc = "done" /\ BuildsWithSearch) => dedups = 1)
    /\ [][BuildsWithSearch =>
              /\ dedups' /= dedups => post_i = Len(languages)
              /\ Appends => dedups = 0]_vars

-----------------------------------------------------------------------------
(* _fix_config_navigation: the static navigation of a language *)

\* I18n._is_url
IsUrl(value) ==
    \E scheme \in UrlSchemes : StartsWith(value, scheme)

\* the str branch of _list_replace_value and _dict_replace_value
StrReplaceValue(value, old, new) ==
    LET v == IF value = old THEN new ELSE value
    IN  IF ~IsUrl(v) THEN StrPath(v) ELSE v

RECURSIVE ListReplaceValue(_, _, _), DictReplaceValue(_, _, _)
\* I18n._list_replace_value
ListReplaceValue(listing, old, new) ==
    NavList([i \in 1..Len(listing.items) |->
                LET e == listing.items[i]
                IN  CASE e.kind = "list" -> ListReplaceValue(e, old, new)
                      [] e.kind = "dict" -> DictReplaceValue(e, old, new)
                      [] e.kind = "str"  -> NavStr(StrReplaceValue(e.value, old, new))])

\* I18n._dict_replace_value
DictReplaceValue(directory, old, new) ==
    NavDict(directory.keys,
            [i \in 1..Len(directory.items) |->
                LET v == directory.items[i]
                IN  CASE v.kind = "dict" -> DictReplaceValue(v, old, new)
                      [] v.kind = "list" -> ListReplaceValue(v, old, new)
                      [] v.kind = "str"  -> NavStr(StrReplaceValue(v.value, old, new))])

\* config_path_expects
ConfigPathExpects(base_path) ==
    <<WithSuffix(base_path, DotMd),
      WithSuffix(base_path, DotLanguage[default_language] \o DotMd)>>

\* the loop over config_path_expects for one page
FixForPage(nav_config, i18n_page) ==
    LET expects == ConfigPathExpects(GetBasePath(i18n_page))
    IN  ListReplaceValue(ListReplaceValue(nav_config, expects[1], i18n_page.src_path),
                         expects[2], i18n_page.src_path)

\* I18n._fix_config_navigation: the loop over files.documentation_pages() from
\* page i on; the result is self.i18n_configs[language]["nav"]
RECURSIVE FixConfigNavigation(_, _, _, _)
FixConfigNavigation(language, i18n_pages, nav_config, i) ==
    IF i > Len(i18n_pages) THEN nav_config
    ELSE IF /\ IsDocumentationPage(i18n_pages[i].src_path)
            /\ PathSuffixes(StrPath(i18n_pages[i].src_path)) = <<DotLanguage[language], DotMd>>
    THEN FixConfigNavigation(language, i18n_pages,
                             FixForPage(nav_config, i18n_pages[i]), i + 1)
    ELSE FixConfigNavigation(language, i18n_pages, nav_config, i + 1)

\* self.i18n_files for the source files of the model
NavIndex(sources) ==
    OnFilesResult([i \in 1..Len(sources) |-> File(sources[i], TRUE)],
                  [use_directory_urls |-> TRUE, default_language_only |-> FALSE]
                 ).i18n

\* the source files of the model
NavSourcePaths ==
    {Str(<<"guide", ".", "md">>),
     Str(<<"guide", ".", "fr", ".", "md">>),
     Str(<<"guide", ".", "en", ".", "md">>),
     Str(<<"sub", "/", "guide", ".", "fr", ".", "md">>)}

\* the strings of a navigation configuration: paths of documents with and
\* without a translation, as str(Path()) gives them and in a spelling that
\* str(Path()) changes, and a URL
NavLiterals ==
    {Str(<<"guide", ".", "md">>),
     Str(<<"guide", ".", "en", ".", "md">>),
     Str(<<"sub", "/", "guide", ".", "md">>),
     Str(<<".", "/", "guide", ".", "md">>),
     Str(<<".", "/", "guide", ".", "en", ".", "md">>),
     Str(<<".", "/", "other", ".", "md">>),
     Str(<<"https:", "/", "/", "x", "/", "/", "guide", ".", "md">>)}

\* the entries of a navigation configuration: a path, a titled path, and a
\* section with a titled path and a path
NavShapes == {"plain", "titled", "section"}

NavEntry(shape, literal) ==
    CASE shape = "plain"   -> NavStr(literal)
      [] shape = "titled"  -> NavDict(<<"Title">>, <<NavStr(literal)>>)
      [] shape = "section" ->
            NavDict(<<"Section">>,
                    <<NavList(<<NavDict(<<"Title">>, <<NavStr(literal)>>),
                                NavStr(literal)>>)>>)

InitNavConfig ==
    /\ FilesIdle
    /\ IndexIdle
    /\ NavIdle
    /\ SearchIdle
    /\ AltIdle
    /\ LocaleIdle
    /\ ConfigsIdle
    /\ config_nav = NavList(<<>>)
    /\ i18n_nav = [language \in all_languages |-> NavList(<<>>)]
    /\ nav_sources = <<>>
    /\ nav_index = [language \in all_languages |-> <<>>]
    /\ nav_fixed = {}

\* one more source file, and on_files for the files there are
NavSourceAdd(src_path) ==
    /\ nav_fixed = {}
    /\ config_nav = NavList(<<>>)
    /\ Len(nav_sources) < MaxNavSources
    /\ ~InSeq(src_path, nav_sources)
    /\ nav_sources' = Append(nav_sources, src_path)
    /\ nav_index' = NavIndex(nav_sources')
    /\ UNCHANGED <<config_nav, i18n_nav, nav_fixed, outsideNavConfig>>

\* one more entry of nav in mkdocs.yml; every language has a copy of it
NavConfigAdd(shape, literal) ==
    /\ nav_fixed = {}
    /\ Len(config_nav.items) < MaxNavEntries
    /\ config_nav' = NavList(Append(config_nav.items, NavEntry(shape, literal)))
    /\ i18n_nav' = [language \in all_languages |-> config_nav']
    /\ UNCHANGED <<nav_sources, nav_index, nav_fixed, outsideNavConfig>>

\* on_post_build: _fix_config_navigation for a language that has a nav
FixNavigation(language) ==
    /\ language \notin nav_fixed
    /\ i18n_nav[language].items /= <<>>
    /\ i18n_nav' = [i18n_nav EXCEPT ![language] =
                       FixConfigNavigation(language, nav_index[language],
                                           i18n_nav[language], 1)]
    /\ nav_fixed' = nav_fixed \cup {language}
    /\ UNCHANGED <<config_nav, nav_sources, nav_index, outsideNavConfig>>

NextNavConfig ==
    \/ \E src_path \in NavSourcePaths : NavSourceAdd(src_path)
    \/ \E shape \in NavShapes, literal \in NavLiterals : NavConfigAdd(shape, literal)
    \/ \E language \in all_languages : FixNavigation(language)

SpecNavConfig == InitNavConfig /\ [][NextNavConfig]_vars

-----------------------------------------------------------------------------
(* C13 *)

\* the end of the source path of a page tagged L: .L.md
TaggedMd == [L \in all_languages |-> Str(<<".", L, ".", "md">>)]

\* the paths b of the documents whose variant b.L.md is in the index of L
TaggedDocuments(L) ==
    {SubSeq(nav_index[L][i].src_path, 1,
            Len(nav_index[L][i].src_path) - Len(TaggedMd[L])) :
        i \in {j \in 1..Len(nav_index[L]) :
                  EndsWith(nav_index[L][j].src_path, TaggedMd[L])}}

\* what a string of the navigation has to be after the call for L
FixedLiteral(before, after, L) ==
    LET docs == {b \in TaggedDocuments(L) :
                    \/ before = b \o DotMd
                    \/ before = b \o TaggedMd[default_language]}
    IN  IF docs /= {} THEN \E b \in docs : after = b \o TaggedMd[L]
        ELSE IF IsUrl(before) THEN after = before
        ELSE StrPath(after) = StrPath(before)

\* the same tree of lists and dicts with the same keys, and every string fixed
RECURSIVE FixedNode(_, _, _)
FixedNode(before, after, L) ==
    /\ after.kind = before.kind
    /\ after.keys = before.keys
    /\ Len(after.items) = Len(before.items)
    /\ before.kind = "str" => FixedLiteral(before.value, after.value, L)
    /\ \A i \in 1..Len(before.items) : FixedNode(before.items[i], after.items[i], L)

\* C13: for a language L with a navigation configuration, after
\* _fix_config_navigation every path of the configuration, at any depth of
\* dicts and lists, that equals b.md or b.D.md for a document whose variant
\* b.L.md is in the index of L is b.L.md; URLs are the same, other paths denote
\* the same file, keys are the same, and the navigation configuration of a
\* language the call was not made for, and the global one, are unchanged.
C13_FixedNavigation ==
    \A L \in all_languages :
        IF L \in nav_fixed
        THEN FixedNode(config_nav, i18n_nav[L], L)
        ELSE i18n_nav[L] = config_nav

-----------------------------------------------------------------------------
(* C14 *)

\* C14: on_page_context never changes self.material_alternates; whatever pages
\* were contextualized before, in whatever order, the alternates of a page are
\* those of its URL and of the URL style: the root of each language followed by
\* the URL without its language prefix, once.
C14_AlternatesNotAccumulated ==
    /\ [][alt_pc = "render" => material_alternates' = material_alternates]_vars
    /\ []((context_page /= <<>> /\ material_alternates /= <<>>) =>
            LET alternates == extra_alternate[context_page[1].tree]
            IN  /\ Len(alternates) = Len(material_alternates)
                /\ \A i \in 1..Len(alternates) :
                      /\ alternates[i].lang = material_alternates[i].lang
                      /\ material_alternates[i].link =
                            LocaleRoot(alternates[i].lang) \o LinkSuffix(alt_config)
                      /\ alternates[i].link =
                            LocaleRoot(alternates[i].lang)
                                \o StripLanguage(context_page[1].url))

\* C14 witness: a page of the main tree was contextualized, then a page of the
\* fr tree; the alternates of each are those of its own URL, and
\* self.material_alternates holds the roots
C14_Witness ==
    /\ context_page /= <<>>
    /\ context_page[1].tree = "fr"
    /\ context_page[1].url = Str(<<"fr", "/", "guide", "/">>)
    /\ material_alternates /= <<>>
    /\ material_alternates[2].link = Str(<<".", "/", "fr", "/">>)
    /\ extra_alternate["fr"][2].link = Str(<<".", "/", "fr", "/", "guide", "/">>)
    /\ extra_alternate["main"][2].link = Str(<<".", "/", "fr", "/", "sub", "/", "guide", "/">>)

====
